---- MODULE Spec2Model ----
(***************************************************************************)
(* A model of validb: the Collection engine (src/src/lib/Collection.ts),   *)
(* the Schema engine (src/src/lib/Schema.ts) and the JSON adapter          *)
(* (src/src/adapters/secureJSON.adapter.ts).                                *)
(*                                                                         *)
(* JavaScript values are records [t |-> kind, v |-> payload].  A document  *)
(* is a function from the keys it has to values.  The collection file     *)
(* holds what JSON.stringify leaves of the documents; every operation     *)
(* re-reads it and, if it mutates, rewrites it whole.                      *)
(***************************************************************************)
EXTENDS Integers, Sequences, FiniteSets, TLC

VARIABLES
  file,      \* content of the collection file: the JSON array of documents
  counter,   \* Collection.counter, the id counter of the instance
  now,       \* the wall clock (Date.now()), in milliseconds
  pc,        \* "idle": no call in progress; "returned": a call has just returned
  last,      \* the call that has just returned: operation, arguments, outcome
  prev,      \* content of the file when that call started
  item,      \* query evaluation: the field value handed to applyQueryOperator
  operator,  \* query evaluation: the operator object
  matched,   \* query evaluation: what applyQueryOperator returned
  calls,     \* number of calls issued so far
  data,      \* adapter: the document sequence handed to serialize
  secretKey, \* adapter: JsonAdapter.secretKey, undefined without credentials
  text,      \* adapter: what serialize returned
  parsed,    \* adapter: what deserialize returned for that text
  callers,   \* overlapping callers: each one's position in insertDocuments
  thisSchema, \* validation: this.schema of a Schema instance
  candidate, \* validation: the object handed to validate
  validation, \* validation: what validate returned
  generated, \* identifiers: the characters of the latest generateId result
  earlier,   \* identifiers: an earlier result and the calls made since
  disk,      \* instances: the content of the file at each path
  instances, \* instances: the fields of each Collection instance
  done,      \* instances: the latest constructor or method call
  mirror     \* instances: the same calls issued through a single instance

adapterVars == <<data, secretKey, text, parsed>>

schemaVars == <<thisSchema, candidate, validation>>

idVars == <<generated, earlier>>

openVars == <<disk, instances, done, mirror>>

vars == <<file, counter, now, pc, last, prev, item, operator, matched, calls,
          adapterVars, callers, schemaVars, idVars, openVars>>

----------------------------------------------------------------------------
(* Bounds of the model *)

MaxCalls == 2       \* calls issued in one behaviour
MaxClock == 1       \* milliseconds the clock may reach
MaxNumber == 3      \* numbers 0..MaxNumber in query evaluation

(* Program constants *)

CounterMod == 16777215     \* 0xffffff
MsPerSecond == 1000

----------------------------------------------------------------------------
(* JavaScript values *)

Undefined == [t |-> "undefined", v |-> 0]
Null == [t |-> "null", v |-> 0]
Bool(b) == [t |-> "boolean", v |-> IF b THEN 1 ELSE 0]
Num(n) == [t |-> "number", v |-> n]
Str(s) == [t |-> "string", v |-> s]          \* a string literal, "A" < "B" < ...
IdStr(ts, rnd, ctr) == [t |-> "idstring", v |-> <<ts, rnd, ctr>>]  \* a generated id
IsoStr(ms) == [t |-> "isostring", v |-> ms]  \* Date.prototype.toISOString()
DateV(ms) == [t |-> "date", v |-> ms]        \* a Date object
Arr(elements) == [t |-> "array", v |-> elements]   \* an array

\* typeof value
TypeOf(x) ==
  CASE x.t = "undefined" -> "undefined"
    [] x.t = "boolean" -> "boolean"
    [] x.t = "number" -> "number"
    [] x.t \in {"string", "idstring", "isostring"} -> "string"
    [] OTHER -> "object"               \* null, Date, array, plain object

IsArray(x) == x.t = "array"

\* a === b.  Two Date objects are never the same object: the file holds no
\* Date (see JsonStringify), so one side is always a fresh one.
StrictEquals(a, b) == a.t # "date" /\ a = b

\* doc[key]
Get(doc, key) == IF key \in DOMAIN doc THEN doc[key] ELSE Undefined

\* {...a, ...b}
Spread(a, b) ==
  [k \in DOMAIN a \cup DOMAIN b |-> IF k \in DOMAIN b THEN b[k] ELSE a[k]]

EmptyDoc == [k \in {} |-> Undefined]

\* an object literal that leaves out the fields given as undefined
Literal(values) == [k \in {f \in DOMAIN values : values[f] # Undefined} |-> values[k]]

----------------------------------------------------------------------------
(* The adapter without credentials: JSON.stringify and JSON.parse *)

\* JSON.stringify of one value: a Date becomes its ISO string (toJSON)
JsonValue(x) == IF x.t = "date" THEN IsoStr(x.v) ELSE x

\* JSON.stringify of a document: keys holding undefined are left out
JsonDoc(doc) ==
  [k \in {f \in DOMAIN doc : doc[f] # Undefined} |-> JsonValue(doc[k])]

\* JSON.stringify of a document sequence
JsonStringify(documents) == [i \in 1..Len(documents) |-> JsonDoc(documents[i])]

\* JSON.parse gives back the JSON values: strings stay strings
JsonParse(json) == json

\* aes-256-ctr under the key derived from secretKey and a random iv: the
\* text "iv:ciphertext"
encrypt(plain, key, iv) == [t |-> "cipher", iv |-> iv, key |-> key, plain |-> plain]

\* decrypting under the key that encrypted gives the plain text back
decrypt(encrypted, key) ==
  IF encrypted.key = key THEN encrypted.plain ELSE Undefined

\* JsonAdapter.serialize: encrypts when the adapter has a secret key
serialize(key, documents, iv) ==
  IF key # Undefined THEN encrypt(JsonStringify(documents), key, iv)
  ELSE JsonStringify(documents)

\* JsonAdapter.deserialize
deserialize(key, string) ==
  JsonParse(IF key # Undefined THEN decrypt(string, key) ELSE string)

\* the collection's adapter is new JsonAdapter(): no credentials
writeCollectionData(documents) == serialize(Undefined, documents, 0)

readCollectionData(f) == deserialize(Undefined, f)

----------------------------------------------------------------------------
(* Objects *)

\* An object written in a query, {k1: v1, k2: v2}: its keys in order
Obj(pairs) == [t |-> "object", v |-> pairs]

\* A document handed to matchesQuery
Document(doc) == [t |-> "document", v |-> doc]

Keys(pairs) == {pairs[i].key : i \in 1..Len(pairs)}

\* obj[key] of an object written as pairs
PropGet(pairs, key) ==
  IF key \in Keys(pairs)
  THEN pairs[CHOOSE i \in 1..Len(pairs) : pairs[i].key = key].value
  ELSE Undefined

\* item[key]: reading a property of undefined or null throws a TypeError
ItemThrows(x) == x.t \in {"undefined", "null"}

ItemGet(x, key) ==
  CASE x.t = "document" -> Get(x.v, key)
    [] x.t = "object" -> PropGet(x.v, key)
    [] OTHER -> Undefined

----------------------------------------------------------------------------
(* Schema *)

\* The schema of the collection, in declaration order (after the users
\* schema of example/without.encrypt.ts): two unique string fields, one
\* of them optional.
UserSchema ==
  << [key |-> "username", type |-> "string", required |-> TRUE, unique |-> TRUE],
     [key |-> "email", type |-> "string", required |-> FALSE, unique |-> TRUE] >>

\* property names that are array indices ("0", "1", ...), in ascending order
ArrayIndexKeys == <<"0", "1", "2">>

\* for (const key in this.schema): the keys that are array indices come
\* first, in ascending order, then the other keys in declaration order
ForIn(schema) ==
  LET declared == {schema[i].key : i \in 1..Len(schema)}
      indices == SelectSeq(ArrayIndexKeys, LAMBDA k : k \in declared)
  IN [n \in 1..Len(indices) |->
        schema[CHOOSE i \in 1..Len(schema) : schema[i].key = indices[n]]]
     \o SelectSeq(schema, LAMBDA c : \A n \in 1..Len(ArrayIndexKeys) : c.key # ArrayIndexKeys[n])

extractUniqueFields(schema) ==
  SelectSeq(ForIn(schema), LAMBDA c : c.unique)

getUniqueFields(schema) ==
  [i \in 1..Len(extractUniqueFields(schema)) |-> extractUniqueFields(schema)[i].key]

Success == [status |-> "SUCCESS", key |-> "", message |-> ""]

Error(key, message) == [status |-> "ERROR", key |-> key, message |-> message]

\* obj[key] of null or undefined: validate throws instead of returning
ValidateThrows == [status |-> "TypeError", key |-> "", message |-> ""]

\* config.items, config.schema: optional
Items(config) == IF "items" \in DOMAIN config THEN config.items ELSE ""
NestedSchema(config) == IF "schema" \in DOMAIN config THEN config.schema ELSE << >>
HasNestedSchema(config) == "schema" \in DOMAIN config

\* the body of the loop of validate for the i-th key, then the rest of the
\* loop: the first key that fails decides
RECURSIVE validateFrom(_, _, _)
validateFrom(schema, obj, i) ==
  IF i > Len(schema) THEN Success
  ELSE IF ItemThrows(obj) THEN ValidateThrows
  ELSE
    LET config == schema[i]
        key == config.key
        value == ItemGet(obj, key)
        nestedValidation == validateFrom(ForIn(NestedSchema(config)), value, 1)
        one ==
          IF config.required /\ value = Undefined THEN Error(key, "required")
          ELSE IF value = Undefined THEN Success
          ELSE IF config.type = "array"
            THEN (IF ~IsArray(value) THEN Error(key, "array")
                  ELSE IF Items(config) # ""
                          /\ \E n \in 1..Len(value.v) : TypeOf(value.v[n]) # Items(config)
                    THEN Error(key, "items")
                  ELSE Success)
          ELSE IF config.type = "object"
            THEN (IF TypeOf(value) # "object" \/ IsArray(value) THEN Error(key, "object")
                  ELSE IF HasNestedSchema(config) /\ nestedValidation.status # "SUCCESS"
                    THEN nestedValidation
                  ELSE Success)
          ELSE IF config.type = "date"
            THEN (IF value.t # "date" THEN Error(key, "type") ELSE Success)
          ELSE IF TypeOf(value) # config.type THEN Error(key, "type")
          ELSE Success
    IN IF one.status = "SUCCESS" THEN validateFrom(schema, obj, i + 1) ELSE one

\* Schema.validate(obj)
validate(schema, obj) == validateFrom(ForIn(schema), Document(obj), 1)

----------------------------------------------------------------------------
(* Query evaluation *)

OperatorKeys == {"$gt", "$lt", "$gte", "$lte", "$eq", "$ne", "$in", "$nin", "where"}

\* isQueryOperator: Object.keys(obj) throws on undefined and null, and is
\* empty or made of indices on the other primitives
isQueryOperator(obj) ==
  IF obj.t \in {"undefined", "null"} THEN "TypeError"
  ELSE IF obj.t = "object" /\ Keys(obj.v) \cap OperatorKeys # {} THEN "true"
  ELSE "false"

\* ToNumber, for the relational operators; NaN is [nan |-> TRUE]
ToNumber(x) ==
  CASE x.t \in {"number", "boolean", "date"} -> [nan |-> FALSE, n |-> x.v]
    [] x.t = "null" -> [nan |-> FALSE, n |-> 0]
    [] x.t = "array" /\ x.v = << >> -> [nan |-> FALSE, n |-> 0]       \* "" is 0
    [] x.t = "array" /\ Len(x.v) = 1 /\ x.v[1].t = "number"
         -> [nan |-> FALSE, n |-> x.v[1].v]                           \* "2" is 2
    [] OTHER -> [nan |-> TRUE, n |-> 0]     \* undefined, non-numeric strings

\* a < b: two strings compare as strings, anything else as numbers, and a
\* comparison with NaN is false
LessThan(a, b) ==
  IF a.t = "string" /\ b.t = "string" THEN a.v < b.v
  ELSE ~ToNumber(a).nan /\ ~ToNumber(b).nan /\ ToNumber(a).n < ToNumber(b).n

\* a variant that takes <= for <
LessOrEqualStrict(a, b) ==
  IF a.t = "string" /\ b.t = "string" THEN a.v < b.v
  ELSE ~ToNumber(a).nan /\ ~ToNumber(b).nan /\ ToNumber(a).n < ToNumber(b).n

LessOrEqual(a, b) ==
  IF a.t = "string" /\ b.t = "string" THEN a.v <= b.v
  ELSE ~ToNumber(a).nan /\ ~ToNumber(b).nan /\ ToNumber(a).n <= ToNumber(b).n

\* array.includes(x)
Includes(array, x) == \E i \in 1..Len(array) : StrictEquals(array[i], x)

\* a variant that never looks into an array-valued field
isInArrayWholeValueOnly(itemValue, array) == Includes(array, itemValue)

isInArray(itemValue, array) ==
  IF IsArray(itemValue)
  THEN \E i \in 1..Len(itemValue.v) : Includes(array, itemValue.v[i])
  ELSE Includes(array, itemValue)

\* The [check, negate] pairs of applyQueryOperator
Checks(itemValue, q) ==
  << <<PropGet(q, "$gt") # Undefined /\ PropGet(q, "$gt") # Null
         /\ ~LessThan(PropGet(q, "$gt"), itemValue), TRUE>>,
     <<PropGet(q, "$lt") # Undefined /\ PropGet(q, "$lt") # Null
         /\ ~LessThan(itemValue, PropGet(q, "$lt")), TRUE>>,
     <<PropGet(q, "$gte") # Undefined /\ PropGet(q, "$gte") # Null
         /\ ~LessOrEqual(PropGet(q, "$gte"), itemValue), TRUE>>,
     <<PropGet(q, "$lte") # Undefined /\ PropGet(q, "$lte") # Null
         /\ ~LessOrEqual(itemValue, PropGet(q, "$lte")), TRUE>>,
     <<PropGet(q, "$eq") # Undefined
         /\ ~StrictEquals(itemValue, PropGet(q, "$eq")), FALSE>>,
     <<PropGet(q, "$ne") # Undefined
         /\ StrictEquals(itemValue, PropGet(q, "$ne")), FALSE>>,
     <<PropGet(q, "$in") # Undefined
         /\ ~isInArray(itemValue, PropGet(q, "$in").v), TRUE>>,
     <<PropGet(q, "$nin") # Undefined
         /\ isInArray(itemValue, PropGet(q, "$nin").v), FALSE>>,
     <<PropGet(q, "where") # Undefined
         /\ ~StrictEquals(itemValue, PropGet(q, "where")), TRUE>> >>

\* checks.every(([check, negate]) => !negate || !check)
applyQueryOperator(itemValue, q) ==
  \A i \in 1..Len(Checks(itemValue, q)) :
    ~Checks(itemValue, q)[i][2] \/ ~Checks(itemValue, q)[i][1]

\* matchesQuery: "true", "false" or "TypeError".  every() stops at the
\* first key that does not match, so a later key is not evaluated.
RECURSIVE matchesFrom(_, _, _), matchesQuery(_, _)
matchesFrom(x, query, i) ==
  IF i > Len(query) THEN "true"
  ELSE LET queryValue == query[i].value
           isOp == isQueryOperator(queryValue)
           one ==
             IF ItemThrows(x) THEN "TypeError"
             ELSE IF isOp = "TypeError" THEN "TypeError"
             ELSE IF isOp = "true"
               THEN (IF applyQueryOperator(ItemGet(x, query[i].key), queryValue.v)
                     THEN "true" ELSE "false")
             ELSE IF TypeOf(queryValue) = "object" /\ queryValue # Null
               THEN matchesQuery(ItemGet(x, query[i].key),
                                 IF queryValue.t = "object" THEN queryValue.v ELSE << >>)
             ELSE IF StrictEquals(ItemGet(x, query[i].key), queryValue)
               THEN "true" ELSE "false"
       IN IF one = "true" THEN matchesFrom(x, query, i + 1) ELSE one

\* A variant that tests the item before the keys of the query: an item that
\* cannot be indexed matches nothing, even under a query without keys.
matchesQueryTestingItemFirst(x, query) ==
  IF ItemThrows(x) THEN "false" ELSE matchesFrom(x, query, 1)

matchesQuery(x, query) == matchesFrom(x, query, 1)

----------------------------------------------------------------------------
(* The Collection engine: what each method computes from the file content *)

\* outcome of a call: status "ok", or the error thrown and what it names
Ok == [status |-> "ok", key |-> "", value |-> Undefined]
Thrown(status, key, value) == [status |-> status, key |-> key, value |-> value]

\* this.counter = (this.counter + 1) % 0xffffff
NextCounter(c) == (c + 1) % CounterMod

RECURSIVE CounterAfter(_, _)
CounterAfter(c, n) == IF n = 0 THEN c ELSE NextCounter(CounterAfter(c, n - 1))

\* generateId, called with the counter as it is before the call: timestamp
\* in seconds, random part, incremented counter
generateId(c, clock, rnd) == IdStr(clock \div MsPerSecond, rnd, NextCounter(c))

\* createNewDoc: { _id: generateId(), ...doc, createdAt, updatedAt }
createNewDoc(doc, c, clock, rnd) ==
  Spread(Spread([k \in {"_id"} |-> generateId(c, clock, rnd)], doc),
         [k \in {"createdAt", "updatedAt"} |-> DateV(clock)])

\* Set.prototype.has
SetHas(set, x) == \E y \in set : StrictEquals(y, x)

\* a variant that indexes the first unique field only
populateFirstUniqueFieldOnly(uniqueFields, collection) ==
  [f \in {uniqueFields[i] : i \in 1..Len(uniqueFields)} |->
     IF f = uniqueFields[1]
     THEN {Get(collection[i], f) : i \in 1..Len(collection)} \ {Undefined}
     ELSE {}]

\* populateUniqueFieldValues: per unique field, the defined values the
\* collection holds in it
populateUniqueFieldValues(uniqueFields, collection) ==
  [f \in {uniqueFields[i] : i \in 1..Len(uniqueFields)} |->
     {Get(collection[i], f) : i \in 1..Len(collection)} \ {Undefined}]

\* validateDocument over docs.forEach: the first document that fails throws
FirstInvalid(schema, docs) ==
  LET bad == {i \in 1..Len(docs) : validate(schema, docs[i]).status = "ERROR"}
  IN IF bad = {} THEN 0 ELSE CHOOSE i \in bad : \A j \in bad : i <= j

\* the duplicate check of insertDocuments: documents in order, for each the
\* unique fields in order; <<0, 0>> when none is a duplicate
FirstDuplicate(uniqueFields, uniqueFieldValues, docs) ==
  LET dup == {p \in (1..Len(docs)) \X (1..Len(uniqueFields)) :
                /\ Get(docs[p[1]], uniqueFields[p[2]]) # Undefined
                /\ SetHas(uniqueFieldValues[uniqueFields[p[2]]],
                          Get(docs[p[1]], uniqueFields[p[2]]))}
  IN IF dup = {} THEN <<0, 0>>
     ELSE CHOOSE p \in dup :
            \A q \in dup : p[1] < q[1] \/ (p[1] = q[1] /\ p[2] <= q[2])

\* a variant that validates while it inserts: the documents before the
\* first invalid one are written
insertValidPrefix(schema, f, c, clock, docs, rnds) ==
  LET invalid == FirstInvalid(schema, docs)
      uniqueFields == getUniqueFields(schema)
      collection == readCollectionData(f)
      uniqueFieldValues == populateUniqueFieldValues(uniqueFields, collection)
      dup == FirstDuplicate(uniqueFields, uniqueFieldValues, docs)
      newDocs == [i \in 1..Len(docs) |->
                    createNewDoc(docs[i], CounterAfter(c, i - 1), clock, rnds[i])]
  IN IF invalid # 0
       THEN [out |-> Thrown("ValidationError", validate(schema, docs[invalid]).key,
                            Get(docs[invalid], validate(schema, docs[invalid]).key)),
             file |-> writeCollectionData(collection \o SubSeq(newDocs, 1, invalid - 1)),
             counter |-> CounterAfter(c, invalid - 1)]
     ELSE IF dup # <<0, 0>>
       THEN [out |-> Thrown("DuplicateKeyError", uniqueFields[dup[2]],
                            Get(docs[dup[1]], uniqueFields[dup[2]])),
             file |-> f, counter |-> c]
     ELSE [out |-> Ok,
           file |-> writeCollectionData(collection \o newDocs),
           counter |-> CounterAfter(c, Len(docs))]

\* a variant that also rejects a value two documents of the call share
insertRejectingSharedValues(schema, f, c, clock, docs, rnds) ==
  LET invalid == FirstInvalid(schema, docs)
      uniqueFields == getUniqueFields(schema)
      collection == readCollectionData(f)
      uniqueFieldValues == populateUniqueFieldValues(uniqueFields, collection)
      dup == FirstDuplicate(uniqueFields, uniqueFieldValues, docs)
      shared == {p \in (1..Len(docs)) \X (1..Len(uniqueFields)) :
                   /\ Get(docs[p[1]], uniqueFields[p[2]]) # Undefined
                   /\ \E j \in 1..(p[1] - 1) :
                        Get(docs[j], uniqueFields[p[2]]) = Get(docs[p[1]], uniqueFields[p[2]])}
      first == CHOOSE p \in shared :
                 \A q \in shared : p[1] < q[1] \/ (p[1] = q[1] /\ p[2] <= q[2])
      newDocs == [i \in 1..Len(docs) |->
                    createNewDoc(docs[i], CounterAfter(c, i - 1), clock, rnds[i])]
  IN IF invalid # 0
       THEN [out |-> Thrown("ValidationError", validate(schema, docs[invalid]).key,
                            Get(docs[invalid], validate(schema, docs[invalid]).key)),
             file |-> f, counter |-> c]
     ELSE IF dup # <<0, 0>>
       THEN [out |-> Thrown("DuplicateKeyError", uniqueFields[dup[2]],
                            Get(docs[dup[1]], uniqueFields[dup[2]])),
             file |-> f, counter |-> c]
     ELSE IF shared # {}
       THEN [out |-> Thrown("DuplicateKeyError", uniqueFields[first[2]],
                            Get(docs[first[1]], uniqueFields[first[2]])),
             file |-> f, counter |-> c]
     ELSE [out |-> Ok,
           file |-> writeCollectionData(collection \o newDocs),
           counter |-> CounterAfter(c, Len(docs))]

\* insertDocuments: [out, file, counter] after the call
insertDocuments(schema, f, c, clock, docs, rnds) ==
  LET invalid == FirstInvalid(schema, docs)
      uniqueFields == getUniqueFields(schema)
      collection == readCollectionData(f)
      uniqueFieldValues == populateUniqueFieldValues(uniqueFields, collection)
      dup == FirstDuplicate(uniqueFields, uniqueFieldValues, docs)
      newDocs == [i \in 1..Len(docs) |->
                    createNewDoc(docs[i], CounterAfter(c, i - 1), clock, rnds[i])]
  IN IF invalid # 0
       THEN [out |-> Thrown("ValidationError", validate(schema, docs[invalid]).key,
                            Get(docs[invalid], validate(schema, docs[invalid]).key)),
             file |-> f, counter |-> c]
     ELSE IF dup # <<0, 0>>
       THEN [out |-> Thrown("DuplicateKeyError", uniqueFields[dup[2]],
                            Get(docs[dup[1]], uniqueFields[dup[2]])),
             file |-> f, counter |-> c]
     ELSE [out |-> Ok,
           file |-> writeCollectionData(collection \o newDocs),
           counter |-> CounterAfter(c, Len(docs))]

\* new Date(x).getTime() of a stored createdAt
GetTime(x) ==
  CASE x.t \in {"isostring", "date", "number"} -> x.v
    [] x.t = "null" -> 0

\* Array.prototype.sort with (a, b) => (dateA - dateB) * order: a stable
\* sort, here by insertion from the left
RECURSIVE InsertSorted(_, _, _)
InsertSorted(sorted, d, order) ==
  IF sorted = << >> THEN <<d>>
  ELSE IF (GetTime(Get(sorted[Len(sorted)], "createdAt")) - GetTime(Get(d, "createdAt")))
            * order > 0
    THEN Append(InsertSorted(SubSeq(sorted, 1, Len(sorted) - 1), d, order),
                sorted[Len(sorted)])
  ELSE Append(sorted, d)

RECURSIVE SortDocs(_, _)
SortDocs(docs, order) ==
  IF docs = << >> THEN << >>
  ELSE InsertSorted(SortDocs(SubSeq(docs, 1, Len(docs) - 1), order), docs[Len(docs)], order)

\* indices of the documents that match, and whether evaluating one throws
Matching(docs, query) ==
  {i \in 1..Len(docs) : matchesQuery(Document(docs[i]), query.v) = "true"}

Throwing(docs, query) ==
  {i \in 1..Len(docs) : matchesQuery(Document(docs[i]), query.v) = "TypeError"}

\* docs.filter(...)
Filter(docs, keep) ==
  LET F[i \in 0..Len(docs)] ==
        IF i = 0 THEN << >>
        ELSE IF i \in keep THEN Append(F[i - 1], docs[i]) ELSE F[i - 1]
  IN F[Len(docs)]

\* docs.find / docs.findIndex: the first index that matches; 0 for none
\* (findIndex's -1); a throw before it aborts the scan
FirstIndex(hits) == IF hits = {} THEN 0 ELSE CHOOSE i \in hits : \A j \in hits : i <= j

ScanThrows(docs, query) ==
  /\ Throwing(docs, query) # {}
  /\ (Matching(docs, query) = {}
      \/ FirstIndex(Throwing(docs, query)) < FirstIndex(Matching(docs, query)))

\* a variant whose default order is ascending
findAscendingByDefault(f, query, sortOrder) ==
  LET docs == readCollectionData(f)
      order == IF sortOrder = "des" THEN -1 ELSE 1
  IN IF query # Undefined /\ Throwing(docs, query) # {}
       THEN [out |-> Thrown("TypeError", "", Undefined), result |-> << >>]
     ELSE [out |-> Ok,
           result |-> SortDocs(IF query # Undefined
                               THEN Filter(docs, Matching(docs, query))
                               ELSE docs, order)]

\* find(query?, sortOrder = "des"); an omitted query is Undefined, a query
\* is the object written by the caller
find(f, query, sortOrder) ==
  LET docs == readCollectionData(f)
      order == IF (IF sortOrder = "undefined" THEN "des" ELSE sortOrder) = "asc" THEN 1 ELSE -1
  IN IF query # Undefined /\ Throwing(docs, query) # {}
       THEN [out |-> Thrown("TypeError", "", Undefined), result |-> << >>]
     ELSE [out |-> Ok,
           result |-> SortDocs(IF query # Undefined
                               THEN Filter(docs, Matching(docs, query))
                               ELSE docs, order)]

IdIndex(docs, id) == FirstIndex({i \in 1..Len(docs) : StrictEquals(Get(docs[i], "_id"), id)})

\* findById: the first document with that _id, or undefined
findById(f, id) ==
  LET docs == readCollectionData(f)
  IN IF IdIndex(docs, id) = 0 THEN Undefined ELSE Document(docs[IdIndex(docs, id)])

\* docs.filter((item) => item !== docToDelete): every other document object
RemoveAt(docs, i) == Filter(docs, (1..Len(docs)) \ {i})

\* a variant that removes every matching document
deleteAllMatching(f, query) ==
  LET docs == readCollectionData(f)
  IN IF ScanThrows(docs, query) THEN [out |-> Thrown("TypeError", "", Undefined), file |-> f]
     ELSE IF Matching(docs, query) = {}
       THEN [out |-> Thrown("NotFoundError", "", Undefined), file |-> f]
     ELSE [out |-> Ok,
           file |-> writeCollectionData(Filter(docs, (1..Len(docs)) \ Matching(docs, query)))]

\* deleteOne: [out, file]
deleteOne(f, query) ==
  LET docs == readCollectionData(f)
      i == FirstIndex(Matching(docs, query))
  IN IF ScanThrows(docs, query) THEN [out |-> Thrown("TypeError", "", Undefined), file |-> f]
     ELSE IF i = 0 THEN [out |-> Thrown("NotFoundError", "", Undefined), file |-> f]
     ELSE [out |-> Ok, file |-> writeCollectionData(RemoveAt(docs, i))]

\* a variant that takes a missing _id for a deletion already done
deleteByIdIgnoringMissing(f, id) ==
  LET docs == readCollectionData(f)
      i == IdIndex(docs, id)
  IN IF i = 0 THEN [out |-> Ok, file |-> f]
     ELSE [out |-> Ok, file |-> writeCollectionData(RemoveAt(docs, i))]

\* deleteById: [out, file]
deleteById(f, id) ==
  LET docs == readCollectionData(f)
      i == IdIndex(docs, id)
  IN IF i = 0 THEN [out |-> Thrown("NotFoundError", "", id), file |-> f]
     ELSE [out |-> Ok, file |-> writeCollectionData(RemoveAt(docs, i))]

\* deepEqual on two values: identical, or two non-null objects with the
\* same own keys and deepEqual values.  A Date has no own enumerable key.
RECURSIVE deepEqualValue(_, _)
deepEqualValue(a, b) ==
  IF StrictEquals(a, b) THEN TRUE
  ELSE IF TypeOf(a) # "object" \/ TypeOf(b) # "object" \/ a = Null \/ b = Null THEN FALSE
  ELSE LET keysA == IF a.t = "object" THEN Keys(a.v) ELSE {}
           keysB == IF b.t = "object" THEN Keys(b.v) ELSE {}
       IN /\ Cardinality(keysA) = Cardinality(keysB)
          /\ \A k \in keysA :
               k \in keysB /\ deepEqualValue(PropGet(a.v, k), PropGet(b.v, k))

\* deepEqual(docToUpdate, updatedDoc): two distinct document objects
deepEqual(obj1, obj2) ==
  /\ Cardinality(DOMAIN obj1) = Cardinality(DOMAIN obj2)
  /\ \A k \in DOMAIN obj1 : k \in DOMAIN obj2 /\ deepEqualValue(obj1[k], obj2[k])

\* the unique check of updateDocument: the first unique field, in order,
\* whose new value is defined, is none of the target's previous unique
\* values, and is held in that field by a document at another index
UpdateDuplicate(uniqueFields, docs, docIndex, updatedDoc) ==
  LET uniqueFieldValues ==
        {Get(docs[docIndex], uniqueFields[i]) : i \in 1..Len(uniqueFields)}
      dup == {j \in 1..Len(uniqueFields) :
                /\ Get(updatedDoc, uniqueFields[j]) # Undefined
                /\ ~SetHas(uniqueFieldValues, Get(updatedDoc, uniqueFields[j]))
                /\ \E index \in 1..Len(docs) :
                     /\ index # docIndex
                     /\ StrictEquals(Get(docs[index], uniqueFields[j]),
                                     Get(updatedDoc, uniqueFields[j]))}
  IN FirstIndex(dup)

\* a variant that leaves updatedAt to the patch
updateDocumentKeepingUpdatedAt(schema, f, docs, docIndex, update, clock) ==
  LET docToUpdate == docs[docIndex]
      updatedDoc == Spread(docToUpdate, update)
      checked == validate(schema, updatedDoc)
      uniqueFields == getUniqueFields(schema)
      dup == UpdateDuplicate(uniqueFields, docs, docIndex, updatedDoc)
  IN IF checked.status = "ERROR"
       THEN [out |-> Thrown("ValidationError", checked.key, Get(updatedDoc, checked.key)),
             file |-> f]
     ELSE IF dup # 0
       THEN [out |-> Thrown("DuplicateKeyError", uniqueFields[dup],
                            Get(updatedDoc, uniqueFields[dup])),
             file |-> f]
     ELSE IF ~deepEqual(docToUpdate, updatedDoc)
       THEN [out |-> Ok,
             file |-> writeCollectionData([docs EXCEPT ![docIndex] = updatedDoc])]
     ELSE [out |-> Ok, file |-> f]

\* updateDocument: [out, file]
updateDocument(schema, f, docs, docIndex, update, clock) ==
  LET docToUpdate == docs[docIndex]
      updatedDoc == Spread(Spread(docToUpdate, update),
                           [k \in {"updatedAt"} |-> DateV(clock)])
      checked == validate(schema, updatedDoc)
      uniqueFields == getUniqueFields(schema)
      dup == UpdateDuplicate(uniqueFields, docs, docIndex, updatedDoc)
  IN IF checked.status = "ERROR"
       THEN [out |-> Thrown("ValidationError", checked.key, Get(updatedDoc, checked.key)),
             file |-> f]
     ELSE IF dup # 0
       THEN [out |-> Thrown("DuplicateKeyError", uniqueFields[dup],
                            Get(updatedDoc, uniqueFields[dup])),
             file |-> f]
     ELSE IF ~deepEqual(docToUpdate, updatedDoc)
       THEN [out |-> Ok,
             file |-> writeCollectionData([docs EXCEPT ![docIndex] = updatedDoc])]
     ELSE [out |-> Ok, file |-> f]

\* updateOne: [out, file]
updateOne(schema, f, query, update, clock) ==
  LET docs == readCollectionData(f)
      docIndex == FirstIndex(Matching(docs, query))
  IN IF ScanThrows(docs, query) THEN [out |-> Thrown("TypeError", "", Undefined), file |-> f]
     ELSE IF docIndex = 0 THEN [out |-> Thrown("NotFoundError", "", Undefined), file |-> f]
     ELSE updateDocument(schema, f, docs, docIndex, update, clock)

\* updateById: [out, file]
updateById(schema, f, id, update, clock) ==
  LET docs == readCollectionData(f)
      docIndex == IdIndex(docs, id)
  IN IF docIndex = 0 THEN [out |-> Thrown("NotFoundError", "", id), file |-> f]
     ELSE updateDocument(schema, f, docs, docIndex, update, clock)

----------------------------------------------------------------------------
(* Inputs of the calls *)

A == Str(1)
B == Str(2)
CustomId == Str(3)          \* an _id string chosen by the caller
CallerDate == DateV(9)      \* a Date chosen by the caller

Field(key, value) == IF value = Undefined THEN EmptyDoc ELSE [k \in {key} |-> value]

UserDoc(username, email) == Spread(Field("username", username), Field("email", email))

\* candidate documents: with and without the required username, with a
\* wrongly typed email
UserDocs ==
  {UserDoc(u, e) : u \in {Undefined, A, B}, e \in {Undefined, A}}
    \cup {UserDoc(A, Num(7))}

ExistingIds(f) == {Get(f[i], "_id") : i \in 1..Len(f)}

\* engine-managed keys a caller may put in a document or a patch
EngineParts(f) ==
  {[k \in {"_id"} |-> id] : id \in ExistingIds(f) \cup {CustomId}}
    \cup {[k \in {"createdAt", "updatedAt"} |-> CallerDate]}

InsertOneDocs(f) ==
  UserDocs \cup {Spread(UserDoc(B, Undefined), e) : e \in EngineParts(f)}

BatchDocs == {UserDoc(Undefined, Undefined), UserDoc(A, Undefined),
              UserDoc(B, Undefined), UserDoc(B, A)}

\* batches of two documents, and one of three
Batches ==
  {<<d1, d2>> : d1 \in BatchDocs, d2 \in BatchDocs}
    \cup {<<UserDoc(A, Undefined), UserDoc(B, Undefined), UserDoc(B, A)>>}

RandomValues == {0}         \* outcomes of Math.random() in generateId

\* patches: empty, on one schema field (one wrongly typed), on _id, on
\* createdAt
Patches ==
  {EmptyDoc, Field("username", A), Field("username", B), Field("email", A),
   Field("email", Num(7)), Field("_id", CustomId), Field("createdAt", CallerDate)}

Pair(key, value) == [key |-> key, value |-> value]

\* queries: {}, a literal per field, an operator object
Queries ==
  { Obj(<< >>),
    Obj(<<Pair("username", A)>>),
    Obj(<<Pair("email", A)>>),
    Obj(<<Pair("username", Obj(<<Pair("$gt", A)>>))>>) }

\* the sortOrder argument; "undefined" when it is omitted
SortOrders == {"asc", "des", "undefined"}

Ids(f) == ExistingIds(f) \cup {CustomId}

----------------------------------------------------------------------------
(* The state machine: one caller, one Collection instance, one call at a   *)
(* time (spec section 5)                                                    *)

NoCall ==
  [op |-> "none", docs |-> << >>, query |-> Undefined, sortOrder |-> "undefined",
   id |-> Undefined, update |-> EmptyDoc, out |-> Ok, result |-> << >>]

Call(op, docs, query, sortOrder, id, update, out, result) ==
  [op |-> op, docs |-> docs, query |-> query, sortOrder |-> sortOrder,
   id |-> id, update |-> update, out |-> out, result |-> result]

NotEvaluated == [by |-> "none", result |-> "none"]

QueryIdle == item = Undefined /\ operator = << >> /\ matched = NotEvaluated

NotDone == [t |-> "none", v |-> 0]

AdapterIdle == data = << >> /\ secretKey = Undefined /\ text = NotDone /\ parsed = NotDone

NoCallers == callers = << >>

SchemaIdle == thisSchema = << >> /\ candidate = EmptyDoc /\ validation = NotDone

NoId == [text |-> << >>, apart |-> 0]

IdIdle == generated = << >> /\ earlier = NoId

OpenIdle == disk = << >> /\ instances = << >> /\ done = NotDone /\ mirror = << >>

\* what initializeCollection writes when the path holds no file
EmptyFile == writeCollectionData(<< >>)

\* files left by an earlier instance (its counter at 100, its random part 1)
OneDocFile ==
  insertDocuments(UserSchema, EmptyFile, 100, 0, <<UserDoc(A, Undefined)>>, <<1>>).file

TwoDocFile ==
  insertDocuments(UserSchema, OneDocFile, 101, 0, <<UserDoc(B, A)>>, <<1>>).file

\* new Collection(path, adapter, schema): initializeCollection creates the
\* file holding [] when the path has none and leaves an existing file as
\* it is
Init ==
  /\ file \in {EmptyFile, OneDocFile, TwoDocFile}
  /\ counter = CounterMod - 2
  /\ now = 0
  /\ pc = "idle"
  /\ last = NoCall
  /\ prev = << >>
  /\ calls = 0
  /\ QueryIdle
  /\ AdapterIdle
  /\ NoCallers
  /\ SchemaIdle
  /\ IdIdle
  /\ OpenIdle

Returned(call, f, c) ==
  /\ pc = "idle"
  /\ calls < MaxCalls
  /\ calls' = calls + 1
  /\ pc' = "returned"
  /\ last' = call
  /\ prev' = file
  /\ file' = f
  /\ counter' = c
  /\ UNCHANGED <<now, item, operator, matched, adapterVars, callers, schemaVars, idVars, openVars>>

InsertOne ==
  \E doc \in InsertOneDocs(file), rnd \in RandomValues :
    /\ LET r == insertDocuments(UserSchema, file, counter, now, <<doc>>, <<rnd>>)
       IN Returned(Call("insertOne", <<doc>>, Undefined, "undefined", Undefined, EmptyDoc,
                        r.out, << >>), r.file, r.counter)

InsertMany ==
  \E docs \in Batches, rnd \in RandomValues :
    /\ LET r == insertDocuments(UserSchema, file, counter, now, docs,
                                [i \in 1..Len(docs) |-> rnd])
       IN Returned(Call("insertMany", docs, Undefined, "undefined", Undefined, EmptyDoc,
                        r.out, << >>), r.file, r.counter)

Find ==
  \E query \in Queries \cup {Undefined}, sortOrder \in SortOrders :
    LET r == find(file, query, sortOrder)
    IN Returned(Call("find", << >>, query, sortOrder, Undefined, EmptyDoc,
                     r.out, r.result), file, counter)

FindById ==
  \E id \in Ids(file) :
    Returned(Call("findById", << >>, Undefined, "undefined", id, EmptyDoc,
                  Ok, findById(file, id)), file, counter)

DeleteOne ==
  \E query \in Queries :
    LET r == deleteOne(file, query)
    IN Returned(Call("deleteOne", << >>, query, "undefined", Undefined, EmptyDoc,
                     r.out, << >>), r.file, counter)

DeleteById ==
  \E id \in Ids(file) :
    LET r == deleteById(file, id)
    IN Returned(Call("deleteById", << >>, Undefined, "undefined", id, EmptyDoc,
                     r.out, << >>), r.file, counter)

UpdateOne ==
  \E query \in Queries, update \in Patches :
    LET r == updateOne(UserSchema, file, query, update, now)
    IN Returned(Call("updateOne", << >>, query, "undefined", Undefined, update,
                     r.out, << >>), r.file, counter)

UpdateById ==
  \E id \in Ids(file), update \in Patches :
    LET r == updateById(UserSchema, file, id, update, now)
    IN Returned(Call("updateById", << >>, Undefined, "undefined", id, update,
                     r.out, << >>), r.file, counter)

\* the caller has seen the outcome and is free to issue the next call
Return ==
  /\ pc = "returned"
  /\ pc' = "idle"
  /\ last' = NoCall
  /\ prev' = << >>
  /\ UNCHANGED <<file, counter, now, item, operator, matched, calls, adapterVars, callers, schemaVars, idVars, openVars>>

\* time passes between two calls
Tick ==
  /\ pc = "idle"
  /\ now < MaxClock
  /\ now' = now + 1
  /\ UNCHANGED <<file, counter, pc, last, prev, item, operator, matched, calls,
               adapterVars, callers, schemaVars, idVars, openVars>>

Next ==
  \/ InsertOne
  \/ InsertMany
  \/ Find
  \/ FindById
  \/ DeleteOne
  \/ DeleteById
  \/ UpdateOne
  \/ UpdateById
  \/ Return
  \/ Tick

Spec == Init /\ [][Next]_vars

----------------------------------------------------------------------------
(* Query evaluation on its own: one field value against one operator       *)
(* object, directly and through matchesQuery on a document                  *)

Numbers == {Num(n) : n \in 0..MaxNumber}

ItemValues == Numbers \cup {Undefined}

\* the pairs of an operator object for the keys that are declared
RECURSIVE PairsOf(_, _)
PairsOf(names, operands) ==
  IF names = << >> THEN << >>
  ELSE (IF operands[Head(names)] = Undefined THEN << >>
        ELSE <<Pair(Head(names), operands[Head(names)])>>)
         \o PairsOf(Tail(names), operands)

Inequalities == <<"$gt", "$lt", "$gte", "$lte">>

\* operator objects: any of the four inequalities, then at most one of
\* $eq and $ne
OperatorObjects ==
  {PairsOf(Inequalities, operands) \o equality :
     operands \in [{"$gt", "$lt", "$gte", "$lte"} -> Numbers \cup {Undefined}],
     equality \in {<< >>} \cup {<<Pair(name, n)>> : name \in {"$eq", "$ne"}, n \in Numbers}}

\* the arrays written after $in and $nin
OperandArrays ==
  {Arr(<< >>), Arr(<<Num(0)>>), Arr(<<Num(1)>>), Arr(<<Num(0), Num(1)>>),
   Arr(<<Num(1), Num(2)>>), Arr(<<Undefined>>)}

\* array-valued fields
ArrayItems == {Arr(<< >>), Arr(<<Num(0)>>), Arr(<<Num(0), Num(2)>>), Arr(<<Num(2), Num(3)>>)}

\* operator objects made of $in and $nin
MembershipObjects ==
  {PairsOf(<<"$in", "$nin">>, operands) :
     operands \in {o \in [{"$in", "$nin"} -> OperandArrays \cup {Undefined}] :
                     \E k \in DOMAIN o : o[k] # Undefined}}

InitQuery ==
  /\ file = EmptyFile
  /\ counter = CounterMod - 2
  /\ now = 0
  /\ pc = "idle"
  /\ last = NoCall
  /\ prev = << >>
  /\ calls = 0
  /\ \/ item \in ItemValues /\ operator \in OperatorObjects
     \/ item \in ItemValues \cup ArrayItems /\ operator \in MembershipObjects
  /\ matched = NotEvaluated
  /\ AdapterIdle
  /\ NoCallers
  /\ SchemaIdle
  /\ IdIdle
  /\ OpenIdle

\* applyQueryOperator(itemValue, queryOperator)
ApplyOperator ==
  /\ matched.by = "none"
  /\ matched' = [by |-> "applyQueryOperator",
                 result |-> IF applyQueryOperator(item, operator) THEN "true" ELSE "false"]
  /\ UNCHANGED <<file, counter, now, pc, last, prev, item, operator, calls,
               adapterVars, callers, schemaVars, idVars, openVars>>

\* matchesQuery(doc, {age: queryOperator}) on a document whose age is the
\* item; the document has no age when the item is undefined
MatchDocument ==
  /\ matched.by = "none"
  /\ matched' = [by |-> "matchesQuery",
                 result |-> matchesQuery(Document(Field("age", item)),
                                         <<Pair("age", Obj(operator))>>)]
  /\ UNCHANGED <<file, counter, now, pc, last, prev, item, operator, calls,
               adapterVars, callers, schemaVars, idVars, openVars>>

NextQuery ==
  \/ ApplyOperator
  \/ MatchDocument

SpecQuery == InitQuery /\ [][NextQuery]_vars

----------------------------------------------------------------------------
(* The adapter on its own: a document sequence the engine hands to         *)
(* serialize, and what deserialize gives back for the text                  *)

\* new JsonAdapter(encryptionInfo): a secret key only with both credentials
JsonAdapter(encryptionInfo) ==
  IF encryptionInfo # Undefined
  THEN [t |-> "string", v |-> <<encryptionInfo.username, "PYOJAN", encryptionInfo.password>>]
  ELSE Undefined

Credentials == {Undefined, [username |-> "user", password |-> "pass"]}

InitializationVectors == {0, 1}

\* documents a caller inserts: conforming ones, one with a Date field the
\* schema does not declare
HandedDocs ==
  {UserDoc(A, Undefined), UserDoc(B, A), UserDoc(B, Undefined),
   Spread(UserDoc(B, Undefined), Field("birthday", CallerDate))}

\* what insertDocuments, updateDocument and deleteById hand to
\* writeCollectionData: the documents read from the file, with the new or
\* the updated documents carrying Date objects
HandedSequences ==
  {<< >>}
  \cup {readCollectionData(f) \o <<createNewDoc(doc, CounterMod - 2, clock, 0)>> :
          f \in {EmptyFile, OneDocFile, TwoDocFile}, doc \in HandedDocs, clock \in 0..MaxClock}
  \cup {[readCollectionData(f) EXCEPT ![1] =
           Spread(Spread(@, update), Field("updatedAt", DateV(clock)))] :
          f \in {OneDocFile, TwoDocFile}, update \in {EmptyDoc, Field("username", B)},
          clock \in 0..MaxClock}
  \cup {RemoveAt(readCollectionData(f), 1) : f \in {OneDocFile, TwoDocFile}}

InitAdapter ==
  /\ file = EmptyFile
  /\ counter = CounterMod - 2
  /\ now = 0
  /\ pc = "idle"
  /\ last = NoCall
  /\ prev = << >>
  /\ calls = 0
  /\ QueryIdle
  /\ NoCallers
  /\ SchemaIdle
  /\ IdIdle
  /\ OpenIdle
  /\ data \in HandedSequences
  /\ secretKey \in {JsonAdapter(c) : c \in Credentials}
  /\ text = NotDone
  /\ parsed = NotDone

\* adapter.serialize(data)
Serialize ==
  /\ text = NotDone
  /\ \E iv \in InitializationVectors :
       text' = [t |-> "text", v |-> serialize(secretKey, data, iv)]
  /\ UNCHANGED <<file, counter, now, pc, last, prev, item, operator, matched, calls,
                 data, secretKey, parsed, callers, schemaVars, idVars, openVars>>

\* adapter.deserialize(text)
Deserialize ==
  /\ text # NotDone
  /\ parsed = NotDone
  /\ parsed' = [t |-> "documents", v |-> deserialize(secretKey, text.v)]
  /\ UNCHANGED <<file, counter, now, pc, last, prev, item, operator, matched, calls,
                 data, secretKey, text, callers, schemaVars, idVars, openVars>>

NextAdapter ==
  \/ Serialize
  \/ Deserialize

SpecAdapter == InitAdapter /\ [][NextAdapter]_vars

----------------------------------------------------------------------------
(* The Schema engine on its own: validate on a candidate object *)

StringField(key, required) == [key |-> key, type |-> "string", required |-> required]
NumberField(key, required) == [key |-> key, type |-> "number", required |-> required]

\* schemas: primitives, an object without and with a nested schema, an
\* array with an item type, a date, a field whose name is an array index
Schemas ==
  { <<StringField("name", TRUE), NumberField("age", FALSE)>>,
    <<[key |-> "address", type |-> "object", required |-> FALSE],
      StringField("name", TRUE)>>,
    <<[key |-> "address", type |-> "object", required |-> TRUE,
       schema |-> <<StringField("street", TRUE), NumberField("zip", TRUE)>>],
      [key |-> "tags", type |-> "array", required |-> FALSE, items |-> "string"]>>,
    <<[key |-> "born", type |-> "date", required |-> TRUE],
      [key |-> "active", type |-> "boolean", required |-> FALSE]>>,
    <<StringField("name", TRUE), NumberField("0", TRUE)>> }

\* values a candidate may hold in a field; undefined: the field is absent
FieldValues ==
  {Undefined, Null, A, Num(1), Bool(TRUE), DateV(0), IsoStr(0),
   Arr(<< >>), Arr(<<A>>), Arr(<<A, Num(1)>>),
   Obj(<< >>), Obj(<<Pair("street", A), Pair("zip", Num(1))>>),
   Obj(<<Pair("street", Num(1))>>), Obj(<<Pair("zip", A)>>)}

\* the candidates for a schema: any value in each declared field, with or
\* without a field the schema does not declare
CandidatesOf(s) ==
  {Spread(Literal(values), extra) :
     values \in [{s[i].key : i \in 1..Len(s)} -> FieldValues],
     extra \in {EmptyDoc, Field("nickname", Num(1))}}

InitSchema ==
  /\ file = EmptyFile
  /\ counter = CounterMod - 2
  /\ now = 0
  /\ pc = "idle"
  /\ last = NoCall
  /\ prev = << >>
  /\ calls = 0
  /\ QueryIdle
  /\ AdapterIdle
  /\ NoCallers
  /\ thisSchema \in Schemas
  /\ candidate \in CandidatesOf(thisSchema)
  /\ validation = NotDone
  /\ IdIdle
  /\ OpenIdle

\* new Schema(schema).validate(candidate)
Validate ==
  /\ validation = NotDone
  /\ validation' = validate(thisSchema, candidate)
  /\ UNCHANGED <<file, counter, now, pc, last, prev, item, operator, matched, calls,
                 adapterVars, callers, thisSchema, candidate,
                 idVars, openVars>>

NextSchema == Validate

SpecSchema == InitSchema /\ [][NextSchema]_vars

----------------------------------------------------------------------------
(* Two callers, each with its own Collection instance on the same file,    *)
(* both in insertOne: readFileSync and writeFileSync are two steps, and    *)
(* the steps of the two callers interleave                                  *)

Callers == {1, 2}

\* documents the two callers insert; each caller has its own instance and
\* so its own id counter, and its own random part of the id
RaceDocs == {UserDoc(A, Undefined), UserDoc(B, Undefined), UserDoc(B, A), UserDoc(A, Num(7))}

InitRace ==
  /\ file \in {EmptyFile, OneDocFile}
  /\ counter = CounterMod - 2
  /\ now = 0
  /\ pc = "idle"
  /\ last = NoCall
  /\ prev = << >>
  /\ calls = 0
  /\ QueryIdle
  /\ AdapterIdle
  /\ SchemaIdle
  /\ IdIdle
  /\ OpenIdle
  /\ callers \in [Callers -> {[step |-> "called", doc |-> d, collection |-> << >>, out |-> Ok,
                                 counter |-> CounterMod - 2] : d \in RaceDocs}]

\* a variant that appends to what the file holds at the time of the write
updatedFileContent(collection, newDocs) == readCollectionData(file) \o newDocs

\* const updatedCollection = collection.concat(newDocs)
updatedCollection(collection, newDocs) == collection \o newDocs

\* insertDocuments up to readCollectionData: the documents are validated,
\* then the file is read
ReadStep(c) ==
  /\ callers[c].step = "called"
  /\ LET invalid == FirstInvalid(UserSchema, <<callers[c].doc>>)
         checked == validate(UserSchema, callers[c].doc)
     IN IF invalid # 0
        THEN callers' = [callers EXCEPT
               ![c].step = "returned",
               ![c].out = Thrown("ValidationError", checked.key, Get(callers[c].doc, checked.key))]
        ELSE callers' = [callers EXCEPT
               ![c].step = "read",
               ![c].collection = readCollectionData(file)]
  /\ UNCHANGED <<file, counter, now, pc, last, prev, item, operator, matched, calls,
                 adapterVars, schemaVars, idVars, openVars>>

\* insertDocuments from the duplicate check on: the check against the
\* collection that was read, then the write of that collection and the new
\* document
WriteStep(c) ==
  /\ callers[c].step = "read"
  /\ LET uniqueFields == getUniqueFields(UserSchema)
         collection == callers[c].collection
         uniqueFieldValues == populateUniqueFieldValues(uniqueFields, collection)
         dup == FirstDuplicate(uniqueFields, uniqueFieldValues, <<callers[c].doc>>)
         newDocs == <<createNewDoc(callers[c].doc, callers[c].counter, now, c)>>
     IN IF dup # <<0, 0>>
        THEN /\ callers' = [callers EXCEPT
                  ![c].step = "returned",
                  ![c].out = Thrown("DuplicateKeyError", uniqueFields[dup[2]],
                                    Get(callers[c].doc, uniqueFields[dup[2]]))]
             /\ file' = file
        ELSE /\ callers' = [callers EXCEPT ![c].step = "returned",
                                           ![c].counter = NextCounter(@)]
             /\ file' = writeCollectionData(updatedCollection(collection, newDocs))
  /\ UNCHANGED <<counter, now, pc, last, prev, item, operator, matched, calls,
                 adapterVars, schemaVars, idVars, openVars>>

NextRace ==
  \/ \E c \in Callers : ReadStep(c)
  \/ \E c \in Callers : WriteStep(c)

SpecRace == InitRace /\ [][NextRace]_vars

----------------------------------------------------------------------------
(* Queries holding an object that is not an operator object: find,          *)
(* deleteOne and updateOne through matchesQuery's recursion                 *)

\* documents with a profile field, which the schema does not declare: absent,
\* a plain object, a string, null
Profiles ==
  {Undefined, Obj(<<Pair("city", A)>>), Obj(<<Pair("city", B)>>), A, Null}

ProfileDoc(username, profile) ==
  Spread(UserDoc(username, Undefined), Field("profile", profile))

\* the file after insertOne of a document of each profile
ProfileFile(p1, p2) ==
  insertDocuments(UserSchema,
    insertDocuments(UserSchema, EmptyFile, 100, 0, <<ProfileDoc(A, p1)>>, <<1>>).file,
    101, 0, <<ProfileDoc(B, p2)>>, <<1>>).file

\* {f: {}} and {f: {g: v}}
EmptyObjectQueries == {Obj(<<Pair(f, Obj(<< >>))>>) : f \in {"email", "profile"}}

NestedQueries == {Obj(<<Pair("profile", Obj(<<Pair("city", v)>>))>>) : v \in {A, B}}

ObjectQueries == EmptyObjectQueries \cup NestedQueries

InitNested ==
  /\ file \in {ProfileFile(p1, p2) : p1 \in Profiles, p2 \in Profiles}
  /\ counter = CounterMod - 2
  /\ now = 0
  /\ pc = "idle"
  /\ last = NoCall
  /\ prev = << >>
  /\ calls = 0
  /\ QueryIdle
  /\ AdapterIdle
  /\ NoCallers
  /\ SchemaIdle
  /\ IdIdle
  /\ OpenIdle

FindNested ==
  \E query \in ObjectQueries, sortOrder \in SortOrders :
    LET r == find(file, query, sortOrder)
    IN Returned(Call("find", << >>, query, sortOrder, Undefined, EmptyDoc,
                     r.out, r.result), file, counter)

DeleteOneNested ==
  \E query \in ObjectQueries :
    LET r == deleteOne(file, query)
    IN Returned(Call("deleteOne", << >>, query, "undefined", Undefined, EmptyDoc,
                     r.out, << >>), r.file, counter)

UpdateOneNested ==
  \E query \in ObjectQueries, update \in {EmptyDoc, Field("email", A)} :
    LET r == updateOne(UserSchema, file, query, update, now)
    IN Returned(Call("updateOne", << >>, query, "undefined", Undefined, update,
                     r.out, << >>), r.file, counter)

NextNested ==
  \/ FindNested
  \/ DeleteOneNested
  \/ UpdateOneNested
  \/ Return
  \/ Tick

SpecNested == InitNested /\ [][NextNested]_vars

----------------------------------------------------------------------------
(* generateId as characters: the identifiers one instance hands out         *)

\* The clock of the model counts milliseconds from an instant Epoch seconds
\* after 1970: Math.floor(Date.now() / 1000) is Epoch + (clock div 1000).
Epoch == 1700000000

\* n.toString(16), as hexadecimal digits 0..15
RECURSIVE ToHex(_)
ToHex(n) == IF n < 16 THEN <<n>> ELSE Append(ToHex(n \div 16), n % 16)

Zeros(n) == [i \in 1..n |-> 0]

\* s.padStart(n, "0") and s.padEnd(n, "0")
PadStart(s, n) == IF Len(s) >= n THEN s ELSE Zeros(n - Len(s)) \o s

PadEnd(s, n) == IF Len(s) >= n THEN s ELSE s \o Zeros(n - Len(s))

\* the characters of a generated id: (timestamp + randomValue +
\* counter).padEnd(24, "0"), the random part given by its characters
IdText(id) ==
  PadEnd(ToHex(Epoch + id.v[1]) \o id.v[2] \o PadStart(ToHex(id.v[3]), 6), 24)

\* Math.random().toString(16).substring(2, 12): up to ten characters, fewer
\* when the fraction is short; a short one does not end in "0"
Nine == <<8, 0, 0, 0, 0, 0, 0, 0, 1>>

RandomParts == {Nine, Nine \o <<0>>, Nine \o <<7>>, <<8>>, << >>}

MaxApart == 16      \* generateId calls of one instance in one behaviour

\* private counter = Math.floor(Math.random() * 0xffffff)
InitId ==
  /\ counter \in {0, CounterMod - 3}
  /\ generated = << >>
  /\ earlier = NoId
  /\ calls = 0
  /\ now = 0
  /\ file = EmptyFile
  /\ pc = "idle"
  /\ last = NoCall
  /\ prev = << >>
  /\ QueryIdle
  /\ AdapterIdle
  /\ NoCallers
  /\ SchemaIdle
  /\ OpenIdle

\* one generateId call; the earlier result followed is either kept or
\* replaced by this one
GenerateId ==
  \E rnd \in RandomParts, keep \in BOOLEAN :
    /\ calls < MaxApart
    /\ calls' = calls + 1
    /\ counter' = NextCounter(counter)
    /\ generated' = IdText(generateId(counter, now, rnd))
    /\ earlier' = IF keep /\ earlier # NoId
                  THEN [earlier EXCEPT !.apart = @ + 1]
                  ELSE [text |-> generated', apart |-> 0]
    /\ UNCHANGED <<file, now, pc, last, prev, item, operator, matched,
                   adapterVars, callers, schemaVars, openVars>>

TickId ==
  /\ now < MaxClock
  /\ now' = now + 1
  /\ UNCHANGED <<file, counter, pc, last, prev, item, operator, matched, calls,
                 adapterVars, callers, schemaVars, idVars, openVars>>

NextId ==
  \/ GenerateId
  \/ TickId

SpecId == InitId /\ [][NextId]_vars

----------------------------------------------------------------------------
(* Collection instances constructed on one path, with an adapter that may   *)
(* hold a secret key, over a file that may be missing or unreadable         *)

\* Database.createCollection: join(dbLocation, name + ext)
CollectionPath == "users.json"

OtherPath == "other.json"

Instances == {1, 2}

\* the content at a path: no file, JSON text, the text encrypt returns (its
\* key, iv and plain text), or text that is neither
Missing == [kind |-> "missing", key |-> Undefined, iv |-> 0, plain |-> << >>]

Malformed == [kind |-> "malformed", key |-> Undefined, iv |-> 0, plain |-> << >>]

\* writeCollectionData of an instance: adapter.serialize, then writeFile
stored(key, documents, iv) ==
  IF key = Undefined
  THEN [kind |-> "json", key |-> Undefined, iv |-> 0,
        plain |-> serialize(key, documents, iv)]
  ELSE [kind |-> "cipher", key |-> serialize(key, documents, iv).key,
        iv |-> serialize(key, documents, iv).iv,
        plain |-> serialize(key, documents, iv).plain]

\* readFile: the text at the path
textOf(content) ==
  IF content.kind = "cipher" THEN encrypt(content.plain, content.key, content.iv)
  ELSE content.plain

Failed(status) == [status |-> status, docs |-> << >>]

\* A variant that takes an unreadable file for an empty collection.
readOrEmpty(key, content) ==
  IF key # Undefined /\ content.kind = "cipher" /\ content.key = key
  THEN [status |-> "ok", docs |-> deserialize(key, textOf(content))]
  ELSE IF key = Undefined /\ content.kind = "json"
  THEN [status |-> "ok", docs |-> deserialize(key, textOf(content))]
  ELSE [status |-> "ok", docs |-> << >>]

\* readCollectionData of an instance: readFile, then adapter.deserialize.
\* With a secret key, decrypt throws on a text that is not iv:hex and is
\* wrapped in an Error; under another key it returns bytes that JSON.parse
\* rejects.  Without one, JSON.parse rejects everything but JSON text.
readThrough(key, content) ==
  IF content.kind = "missing" THEN Failed("ENOENT")
  ELSE IF key # Undefined
    THEN IF content.kind # "cipher" THEN Failed("Error")
         ELSE IF content.key # key THEN Failed("SyntaxError")
         ELSE [status |-> "ok", docs |-> deserialize(key, textOf(content))]
  ELSE IF content.kind = "json"
    THEN [status |-> "ok", docs |-> deserialize(key, textOf(content))]
  ELSE Failed("SyntaxError")

\* A variant of the constructor that writes [] whether the file exists or not.
initializeAlways(key, content, iv) == stored(key, << >>, iv)

\* initializeCollection: writes [] only when the path holds no file
initializeCollection(key, content, iv) ==
  IF content.kind = "missing" THEN stored(key, << >>, iv) ELSE content

\* the outcome of a method that could not read the file
Failure(rd, content, c) ==
  [out |-> Thrown(rd.status, "", Undefined), result |-> << >>,
   content |-> content, counter |-> c]

\* the content after a method that read docs and left f: the file is not
\* written when the method wrote nothing
written(key, content, docs, f, iv) ==
  IF f = docs THEN content ELSE stored(key, f, iv)

\* the _id of the document at a position, or one no document holds
IdAt(docs, position) ==
  IF position >= 1 /\ position <= Len(docs) THEN Get(docs[position], "_id") ELSE CustomId

\* insertOne through an instance: validateDocument precedes the read
insertOneThrough(key, content, c, clock, doc, rnd, iv) ==
  LET rd == readThrough(key, content)
      r == insertDocuments(UserSchema, rd.docs, c, clock, <<doc>>, <<rnd>>)
  IN IF r.out.status = "ValidationError"
       THEN [out |-> r.out, result |-> << >>, content |-> content, counter |-> c]
     ELSE IF rd.status # "ok" THEN Failure(rd, content, c)
     ELSE [out |-> r.out, result |-> << >>,
           content |-> written(key, content, rd.docs, r.file, iv), counter |-> r.counter]

findThrough(key, content, c, query) ==
  LET rd == readThrough(key, content)
      r == find(rd.docs, query, "undefined")
  IN IF rd.status # "ok" THEN Failure(rd, content, c)
     ELSE [out |-> r.out, result |-> r.result, content |-> content, counter |-> c]

findByIdThrough(key, content, c, position) ==
  LET rd == readThrough(key, content)
      i == IdIndex(rd.docs, IdAt(rd.docs, position))
  IN IF rd.status # "ok" THEN Failure(rd, content, c)
     ELSE [out |-> Ok, result |-> IF i = 0 THEN << >> ELSE <<rd.docs[i]>>,
           content |-> content, counter |-> c]

deleteOneThrough(key, content, c, query, iv) ==
  LET rd == readThrough(key, content)
      r == deleteOne(rd.docs, query)
  IN IF rd.status # "ok" THEN Failure(rd, content, c)
     ELSE [out |-> r.out, result |-> << >>,
           content |-> written(key, content, rd.docs, r.file, iv), counter |-> c]

deleteByIdThrough(key, content, c, position, iv) ==
  LET rd == readThrough(key, content)
      r == deleteById(rd.docs, IdAt(rd.docs, position))
  IN IF rd.status # "ok" THEN Failure(rd, content, c)
     ELSE [out |-> r.out, result |-> << >>,
           content |-> written(key, content, rd.docs, r.file, iv), counter |-> c]

updateOneThrough(key, content, c, clock, query, update, iv) ==
  LET rd == readThrough(key, content)
      r == updateOne(UserSchema, rd.docs, query, update, clock)
  IN IF rd.status # "ok" THEN Failure(rd, content, c)
     ELSE [out |-> r.out, result |-> << >>,
           content |-> written(key, content, rd.docs, r.file, iv), counter |-> c]

updateByIdThrough(key, content, c, clock, position, update, iv) ==
  LET rd == readThrough(key, content)
      r == updateById(UserSchema, rd.docs, IdAt(rd.docs, position), update, clock)
  IN IF rd.status # "ok" THEN Failure(rd, content, c)
     ELSE [out |-> r.out, result |-> << >>,
           content |-> written(key, content, rd.docs, r.file, iv), counter |-> c]

\* secret keys of two adapters with credentials
KeyOne == JsonAdapter([username |-> "user", password |-> "pass"])

KeyTwo == JsonAdapter([username |-> "user", password |-> "other"])

\* A variant in which each instance works on a path of its own.
ownPath(i) == IF i = 1 THEN CollectionPath ELSE OtherPath

\* this._collectionPath
collectionPath(i) == instances[i].path

\* private counter = Math.floor(Math.random() * 0xffffff), per instance
InitialCounter(i) == IF i = 1 THEN CounterMod - 2 ELSE 100

MirrorCounter == 7

NotCalled ==
  [op |-> "none", via |-> 0, out |-> Ok, result |-> << >>, before |-> Missing,
   mirrorOut |-> Ok, mirrorResult |-> << >>]

InitOpen ==
  /\ secretKey \in {Undefined, KeyOne}
  /\ \E content \in {Missing, Malformed, stored(Undefined, OneDocFile, 0),
                     stored(KeyOne, OneDocFile, 0), stored(KeyTwo, OneDocFile, 0)} :
       /\ disk = [path \in {CollectionPath, OtherPath} |->
                    IF path = CollectionPath THEN content ELSE Missing]
       /\ mirror = [opened |-> FALSE, content |-> content, counter |-> MirrorCounter]
  /\ instances = [i \in Instances |->
                    [opened |-> FALSE, path |-> CollectionPath, counter |-> InitialCounter(i)]]
  /\ done = NotCalled
  /\ calls = 0
  /\ now = 0
  /\ file = EmptyFile
  /\ counter = CounterMod - 2
  /\ pc = "idle"
  /\ last = NoCall
  /\ prev = << >>
  /\ data = << >> /\ text = NotDone /\ parsed = NotDone
  /\ QueryIdle
  /\ NoCallers
  /\ SchemaIdle
  /\ IdIdle

\* new Collection(path, adapter, schema) for instance i; the single
\* instance of the mirror is constructed with the first of them
Open(i) ==
  /\ ~instances[i].opened
  /\ instances' = [instances EXCEPT ![i].opened = TRUE]
  /\ disk' = [disk EXCEPT ![collectionPath(i)] = initializeCollection(secretKey, @, 0)]
  /\ mirror' = IF mirror.opened THEN mirror
               ELSE [mirror EXCEPT !.opened = TRUE,
                                   !.content = initializeCollection(secretKey, @, 0)]
  /\ done' = [NotCalled EXCEPT !.op = "new", !.via = i, !.before = disk[collectionPath(i)]]
  /\ UNCHANGED <<file, counter, now, pc, last, prev, item, operator, matched, calls,
                 adapterVars, callers, schemaVars, idVars>>

\* a method of instance i returns; the mirror has made the same call
Completed(i, op, real, single) ==
  /\ done' = [op |-> op, via |-> i, out |-> real.out, result |-> real.result,
              before |-> disk[collectionPath(i)],
              mirrorOut |-> single.out, mirrorResult |-> single.result]
  /\ disk' = [disk EXCEPT ![collectionPath(i)] = real.content]
  /\ instances' = [instances EXCEPT ![i].counter = real.counter]
  /\ mirror' = [mirror EXCEPT !.content = single.content, !.counter = single.counter]
  /\ calls' = calls + 1
  /\ UNCHANGED <<file, counter, now, pc, last, prev, item, operator, matched,
                 adapterVars, callers, schemaVars, idVars>>

\* instance i is constructed and the caller may issue one more call
Callable(i) == instances[i].opened /\ calls < MaxCalls

\* the random part of the next generated id: no two calls draw the same
Drawn == 10 + calls

OpenDocs == {UserDoc(A, Undefined), UserDoc(B, A), UserDoc(Undefined, A)}

OpenQueries == {Undefined, Obj(<<Pair("username", A)>>)}

Positions == {0, 1}

InsertOneThrough(i) ==
  \E doc \in OpenDocs :
    /\ Callable(i)
    /\ Completed(i, "insertOne",
         insertOneThrough(secretKey, disk[collectionPath(i)], instances[i].counter,
                          now, doc, Drawn, calls + 1),
         insertOneThrough(secretKey, mirror.content, mirror.counter,
                          now, doc, Drawn, calls + 1))

FindThrough(i) ==
  \E query \in OpenQueries :
    /\ Callable(i)
    /\ Completed(i, "find",
         findThrough(secretKey, disk[collectionPath(i)], instances[i].counter, query),
         findThrough(secretKey, mirror.content, mirror.counter, query))

FindByIdThrough(i) ==
  \E position \in Positions :
    /\ Callable(i)
    /\ Completed(i, "findById",
         findByIdThrough(secretKey, disk[collectionPath(i)], instances[i].counter, position),
         findByIdThrough(secretKey, mirror.content, mirror.counter, position))

DeleteOneThrough(i) ==
  /\ Callable(i)
  /\ Completed(i, "deleteOne",
       deleteOneThrough(secretKey, disk[collectionPath(i)], instances[i].counter,
                        Obj(<<Pair("username", A)>>), calls + 1),
       deleteOneThrough(secretKey, mirror.content, mirror.counter,
                        Obj(<<Pair("username", A)>>), calls + 1))

DeleteByIdThrough(i) ==
  \E position \in Positions :
    /\ Callable(i)
    /\ Completed(i, "deleteById",
         deleteByIdThrough(secretKey, disk[collectionPath(i)], instances[i].counter,
                           position, calls + 1),
         deleteByIdThrough(secretKey, mirror.content, mirror.counter,
                           position, calls + 1))

UpdateOneThrough(i) ==
  /\ Callable(i)
  /\ Completed(i, "updateOne",
       updateOneThrough(secretKey, disk[collectionPath(i)], instances[i].counter, now,
                        Obj(<<Pair("username", A)>>), Field("username", B), calls + 1),
       updateOneThrough(secretKey, mirror.content, mirror.counter, now,
                        Obj(<<Pair("username", A)>>), Field("username", B), calls + 1))

UpdateByIdThrough(i) ==
  \E position \in Positions :
    /\ Callable(i)
    /\ Completed(i, "updateById",
         updateByIdThrough(secretKey, disk[collectionPath(i)], instances[i].counter, now,
                           position, Field("email", A), calls + 1),
         updateByIdThrough(secretKey, mirror.content, mirror.counter, now,
                           position, Field("email", A), calls + 1))

NextOpen ==
  \/ \E i \in Instances : Open(i)
  \/ \E i \in Instances : InsertOneThrough(i)
  \/ \E i \in Instances : FindThrough(i)
  \/ \E i \in Instances : FindByIdThrough(i)
  \/ \E i \in Instances : DeleteOneThrough(i)
  \/ \E i \in Instances : DeleteByIdThrough(i)
  \/ \E i \in Instances : UpdateOneThrough(i)
  \/ \E i \in Instances : UpdateByIdThrough(i)

SpecOpen == InitOpen /\ [][NextOpen]_vars

----------------------------------------------------------------------------
(* A collection whose schema has a required date field *)

EventSchema ==
  << [key |-> "title", type |-> "string", required |-> TRUE, unique |-> TRUE],
     [key |-> "when", type |-> "date", required |-> TRUE, unique |-> FALSE] >>

EventDoc(title, when) == Spread(Field("title", title), Field("when", when))

\* documents a caller inserts: with a Date, without one, with a string in
\* its place
EventDocs ==
  {EventDoc(A, DateV(5)), EventDoc(B, DateV(6)), EventDoc(A, Undefined), EventDoc(B, A)}

EventQueries == {Obj(<< >>), Obj(<<Pair("title", A)>>)}

\* patches: empty, on the title, on the date
EventPatches == {EmptyDoc, Field("title", B), Field("when", DateV(7)), Field("title", Num(7))}

InitDate ==
  /\ file = EmptyFile
  /\ counter = CounterMod - 2
  /\ now = 0
  /\ pc = "idle"
  /\ last = NoCall
  /\ prev = << >>
  /\ calls = 0
  /\ QueryIdle
  /\ AdapterIdle
  /\ NoCallers
  /\ SchemaIdle
  /\ IdIdle
  /\ OpenIdle

InsertEvent ==
  \E doc \in EventDocs, rnd \in RandomValues :
    LET r == insertDocuments(EventSchema, file, counter, now, <<doc>>, <<rnd>>)
    IN Returned(Call("insertOne", <<doc>>, Undefined, "undefined", Undefined, EmptyDoc,
                     r.out, << >>), r.file, r.counter)

FindEvent ==
  \E query \in EventQueries :
    LET r == find(file, query, "undefined")
    IN Returned(Call("find", << >>, query, "undefined", Undefined, EmptyDoc,
                     r.out, r.result), file, counter)

UpdateEvent ==
  \E query \in EventQueries, update \in EventPatches :
    LET r == updateOne(EventSchema, file, query, update, now)
    IN Returned(Call("updateOne", << >>, query, "undefined", Undefined, update,
                     r.out, << >>), r.file, counter)

UpdateEventById ==
  \E id \in Ids(file), update \in EventPatches :
    LET r == updateById(EventSchema, file, id, update, now)
    IN Returned(Call("updateById", << >>, Undefined, "undefined", id, update,
                     r.out, << >>), r.file, counter)

NextDate ==
  \/ InsertEvent
  \/ FindEvent
  \/ UpdateEvent
  \/ UpdateEventById
  \/ Return
  \/ Tick

SpecDate == InitDate /\ [][NextDate]_vars

----------------------------------------------------------------------------
(* What the specification says, stated without the engine's operators *)

UniqueKeys == {UserSchema[i].key : i \in {j \in 1..Len(UserSchema) : UserSchema[j].unique}}

EngineKeys == {"_id", "createdAt", "updatedAt"}

\* the fields of a document that are not engine-managed
UserPart(doc) == [k \in DOMAIN doc \ EngineKeys |-> doc[k]]

\* the document has every required field, each declared field it has is
\* of the declared type
Conforms(doc) ==
  \A i \in 1..Len(UserSchema) :
    /\ UserSchema[i].required => Get(doc, UserSchema[i].key) # Undefined
    /\ Get(doc, UserSchema[i].key) # Undefined
         => TypeOf(Get(doc, UserSchema[i].key)) = UserSchema[i].type

\* x and y are two numbers or two strings
Comparable(x, y) == x.t = y.t /\ x.t \in {"number", "string"}

\* the field value is one of the elements of the array S or, when it is an
\* array, one of its elements is
Member(x, S) ==
  \/ \E i \in 1..Len(S.v) : S.v[i] = x
  \/ x.t = "array" /\ \E j \in 1..Len(x.v) : \E i \in 1..Len(S.v) : S.v[i] = x.v[j]

\* the condition one operator of an operator object puts on a field value
Holds(x, name, operand) ==
  CASE name = "$gt" -> Comparable(x, operand) /\ x.v > operand.v
    [] name = "$lt" -> Comparable(x, operand) /\ x.v < operand.v
    [] name = "$gte" -> Comparable(x, operand) /\ x.v >= operand.v
    [] name = "$lte" -> Comparable(x, operand) /\ x.v <= operand.v
    [] name = "$eq" -> x = operand
    [] name = "$ne" -> x # operand
    [] name = "$in" -> Member(x, operand)
    [] name = "$nin" -> ~Member(x, operand)

\* every declared operator holds
SatisfiesOperators(x, pairs) ==
  \A j \in 1..Len(pairs) : Holds(x, pairs[j].key, pairs[j].value)

\* the document matches the query: every key of the query matches, a
\* literal by equality and an operator object by all its operators
Satisfies(doc, query) ==
  \A i \in 1..Len(query.v) :
    IF query.v[i].value.t = "object"
    THEN SatisfiesOperators(Get(doc, query.v[i].key), query.v[i].value.v)
    ELSE Get(doc, query.v[i].key) = query.v[i].value

Least(S) == IF S = {} THEN 0 ELSE CHOOSE i \in S : \A j \in S : i <= j

IsInsert == last.op \in {"insertOne", "insertMany"}
IsUpdate == last.op \in {"updateOne", "updateById"}
ByQuery == last.op \in {"deleteOne", "updateOne"}
ById == last.op \in {"deleteById", "updateById"}

\* position in the file, before the call, of the document a delete or an
\* update is aimed at; 0 when there is none
Target ==
  IF ByQuery THEN Least({i \in 1..Len(prev) : Satisfies(prev[i], last.query)})
  ELSE IF ById THEN Least({i \in 1..Len(prev) : Get(prev[i], "_id") = last.id})
  ELSE 0

\* the target overlaid with the patch
Merged == Spread(prev[Target], last.update)

\* (document of the call, unique field) pairs whose defined value a
\* persisted document already holds in that field
DuplicatePairs ==
  {p \in (1..Len(last.docs)) \X UniqueKeys :
     /\ Get(last.docs[p[1]], p[2]) # Undefined
     /\ \E j \in 1..Len(prev) : Get(prev[j], p[2]) = Get(last.docs[p[1]], p[2])}

NamesDuplicate ==
  \E p \in DuplicatePairs :
    last.out.key = p[2] /\ last.out.value = Get(last.docs[p[1]], p[2])

----------------------------------------------------------------------------
(* Claims *)

\* C1 (as stated): an insert of a document that supplies, in a unique field,
\* a value a persisted document holds there fails with a duplicate-key error
\* naming the field and the value, and leaves the file unchanged.
C1_AnyDuplicateInsertIsDuplicateKeyError ==
  (pc = "returned" /\ IsInsert /\ DuplicatePairs # {})
    => (last.out.status = "DuplicateKeyError" /\ NamesDuplicate /\ file = prev)

\* C1 (amended): such an insert always fails and leaves the file unchanged;
\* when every document of the call passes schema validation, the failure is
\* a duplicate-key error naming such a field and its value.
C1_DuplicateInsertRejected ==
  (pc = "returned" /\ IsInsert /\ DuplicatePairs # {})
    => /\ last.out.status # "ok"
       /\ file = prev
       /\ (\A i \in 1..Len(last.docs) : Conforms(last.docs[i]))
            => (last.out.status = "DuplicateKeyError" /\ NamesDuplicate)

C1_Witness ==
  /\ pc = "returned"
  /\ last.op = "insertOne"
  /\ Len(prev) = 2
  /\ DuplicatePairs # {}
  /\ Conforms(last.docs[1])
  /\ last.out = Thrown("DuplicateKeyError", "email", A)

\* C2: an update whose merged document has, in a unique field, a defined
\* value that differs from the target's previous one and that another
\* persisted document holds in that field fails with a duplicate-key error
\* and writes nothing.
C2_UpdateDuplicateRejected ==
  (/\ pc = "returned" /\ IsUpdate /\ Target # 0
   /\ Conforms(Merged)
   /\ \E f \in UniqueKeys :
        /\ Get(Merged, f) # Undefined
        /\ Get(Merged, f) # Get(prev[Target], f)
        /\ \E j \in 1..Len(prev) : j # Target /\ Get(prev[j], f) = Get(Merged, f))
    => (last.out.status = "DuplicateKeyError" /\ file = prev)

\* C3: insertMany is all-or-nothing: on success the file is the previous
\* sequence followed by one new document per input document, in input
\* order; on failure it is the previous sequence; a document that fails
\* validation makes the call fail.
C3_InsertManyAllOrNothing ==
  (pc = "returned" /\ last.op = "insertMany")
    => /\ last.out.status = "ok" =>
            /\ Len(file) = Len(prev) + Len(last.docs)
            /\ SubSeq(file, 1, Len(prev)) = prev
            /\ \A i \in 1..Len(last.docs) :
                 UserPart(file[Len(prev) + i]) = UserPart(JsonDoc(last.docs[i]))
       /\ last.out.status # "ok" => file = prev
       /\ (\E i \in 1..Len(last.docs) : ~Conforms(last.docs[i])) => last.out.status # "ok"

C3_Witness ==
  /\ pc = "returned"
  /\ last.op = "insertMany"
  /\ Conforms(last.docs[1])
  /\ DuplicatePairs = {}
  /\ ~Conforms(last.docs[2])
  /\ last.out.status = "ValidationError"
  /\ file = prev

C5_UpdatePreservesIdAndCreatedAt ==
  (pc = "returned" /\ IsUpdate /\ last.out.status = "ok")
    => /\ Get(file[Target], "_id") = Get(prev[Target], "_id")
       /\ Get(file[Target], "createdAt") = Get(prev[Target], "createdAt")

\* C6: after a successful insert every new document holds the _id generated
\* by the engine (the instance's counter, the timestamp of the call) and the
\* createdAt and updatedAt of the call, whatever the input document carries.
C6_InsertAssignsEngineFields ==
  (pc = "returned" /\ IsInsert /\ last.out.status = "ok")
    => \A i \in 1..Len(last.docs) :
         LET d == file[Len(prev) + i]
         IN /\ Get(d, "_id").t = "idstring"
            /\ Get(d, "_id").v[1] = now \div MsPerSecond
            /\ CounterAfter(Get(d, "_id").v[3], Len(last.docs) - i) = counter
            /\ Get(d, "createdAt") = IsoStr(now)
            /\ Get(d, "updatedAt") = IsoStr(now)

\* C7: after a successful insertOne(d) the file ends with a new document
\* whose fields other than _id, createdAt and updatedAt are those of d, and
\* findById with its _id returns that document.
C7_InsertThenFindById ==
  (pc = "returned" /\ last.op = "insertOne" /\ last.out.status = "ok")
    => /\ Len(file) = Len(prev) + 1
       /\ SubSeq(file, 1, Len(prev)) = prev
       /\ UserPart(file[Len(file)]) = UserPart(last.docs[1])
       /\ findById(file, Get(file[Len(file)], "_id")) = Document(file[Len(file)])

\* number of positions of a sequence that hold x
Count(seq, x) == Cardinality({i \in 1..Len(seq) : seq[i] = x})

CreatedAt(doc) == Get(doc, "createdAt").v

C9_InequalitiesAreConjoined ==
  (matched.by # "none" /\ Keys(operator) \subseteq {"$gt", "$lt", "$gte", "$lte"})
    => (matched.result = "true" <=> SatisfiesOperators(item, operator))

C9_Witness ==
  /\ matched.by = "matchesQuery"
  /\ Keys(operator) = {"$gte", "$lt"}
  /\ PropGet(operator, "$gte") = Num(1)
  /\ PropGet(operator, "$lt") = Num(3)
  /\ item = Num(1)
  /\ matched.result = "true"

\* C10: a field value matches {$eq: v} exactly when it equals v and
\* {$ne: v} exactly when it differs from v, also next to other operators.
C10_EqualityOperators ==
  (matched.by # "none" /\ Keys(operator) \cap {"$in", "$nin"} = {})
    => (matched.result = "true" <=> SatisfiesOperators(item, operator))

\* C11: a field value matches {$in: S} exactly when it is a member of S or,
\* being an array, has an element that is a member of S; next to $nin, a
\* match still requires it.
C11_InMembership ==
  (matched.by # "none" /\ "$in" \in Keys(operator))
    => /\ matched.result \in {"true", "false"}
       /\ matched.result = "true" => Member(item, PropGet(operator, "$in"))
       /\ Keys(operator) = {"$in"}
            => (matched.result = "true" <=> Member(item, PropGet(operator, "$in")))

C11_Witness ==
  /\ matched.by = "matchesQuery"
  /\ Keys(operator) = {"$in"}
  /\ PropGet(operator, "$in") = Arr(<<Num(1), Num(2)>>)
  /\ item = Arr(<<Num(0), Num(2)>>)
  /\ matched.result = "true"

\* C12: a field value matches {$nin: S} exactly when it is not a member of
\* S and, being an array, has no element that is a member of S; next to
\* $in, a match still requires it.
C12_NinMembership ==
  (matched.by # "none" /\ "$nin" \in Keys(operator))
    => /\ matched.result = "true" => ~Member(item, PropGet(operator, "$nin"))
       /\ Keys(operator) = {"$nin"}
            => (matched.result = "true" <=> ~Member(item, PropGet(operator, "$nin")))

PatchChangesNothing == \A k \in DOMAIN last.update : last.update[k] = Get(prev[Target], k)

\* C14: a successful update whose patch changes no field of the target
\* writes nothing: the file, the target's updatedAt included, is as before.
C14_UnchangedUpdateWritesNothing ==
  (pc = "returned" /\ IsUpdate /\ last.out.status = "ok" /\ PatchChangesNothing)
    => file = prev

\* C15: for every document sequence the engine hands to the adapter,
\* deserialize(serialize(x)) equals x, with and without credentials: the
\* same documents with the same fields holding the same values of the same
\* type.
C15_AdapterRoundTrip ==
  parsed # NotDone => parsed.v = data

\* a non-array, non-null composite value
Composite(value) == TypeOf(value) = "object" /\ value # Null /\ ~IsArray(value)

\* what validation is specified to return: the declared fields in
\* declaration order, the first one that fails its required or type check
\* decides; an object field takes a non-array, non-null composite and a
\* nested ERROR is returned as it is
RECURSIVE Specified(_, _, _)
Specified(s, x, i) ==
  IF i > Len(s) THEN Success
  ELSE
    LET config == s[i]
        key == config.key
        value == IF ItemThrows(x) THEN Undefined ELSE ItemGet(x, key)
        nested == Specified(NestedSchema(config), value, 1)
        one ==
          IF value = Undefined
            THEN (IF config.required THEN Error(key, "required") ELSE Success)
          ELSE IF config.type = "array"
            THEN (IF ~IsArray(value) THEN Error(key, "array")
                  ELSE IF Items(config) # ""
                          /\ \E n \in 1..Len(value.v) : TypeOf(value.v[n]) # Items(config)
                    THEN Error(key, "items")
                  ELSE Success)
          ELSE IF config.type = "object"
            THEN (IF ~Composite(value) THEN Error(key, "object")
                  ELSE IF HasNestedSchema(config) THEN nested
                  ELSE Success)
          ELSE IF config.type = "date"
            THEN (IF value.t # "date" THEN Error(key, "type") ELSE Success)
          ELSE IF TypeOf(value) # config.type THEN Error(key, "type")
          ELSE Success
    IN IF one.status = "SUCCESS" THEN Specified(s, x, i + 1) ELSE one

\* C16: validate returns SUCCESS with an empty message exactly when no
\* declared field fails its required or type check, and otherwise the ERROR
\* of the first declared field, in declaration order, that fails; fields
\* the schema does not declare change nothing.
C16_ValidateFirstFailingField ==
  validation # NotDone
    => /\ validation = Specified(thisSchema, Document(candidate), 1)
       /\ validation = validate(thisSchema, [k \in DOMAIN candidate \ {"nickname"} |-> candidate[k]])

\* the declared object fields that hold a value that is null, an array or a
\* primitive
BadObjectFields ==
  {i \in 1..Len(thisSchema) :
     /\ thisSchema[i].type = "object"
     /\ Get(candidate, thisSchema[i].key) # Undefined
     /\ ~Composite(Get(candidate, thisSchema[i].key))}

\* C17: validate returns an ERROR when an object field holds null, an array
\* or a primitive, with or without a nested schema; when the first declared
\* field is an object field with a nested schema and holds a proper object
\* that fails it, the nested ERROR is returned as it is.
C17_ObjectFieldRejectsNonObjects ==
  validation # NotDone
    => /\ BadObjectFields # {} => validation.status = "ERROR"
       /\ (/\ thisSchema[1].type = "object" /\ HasNestedSchema(thisSchema[1])
           /\ Composite(Get(candidate, thisSchema[1].key))
           /\ Specified(thisSchema[1].schema, Get(candidate, thisSchema[1].key), 1).status = "ERROR")
            => validation = Specified(thisSchema[1].schema, Get(candidate, thisSchema[1].key), 1)

BothInserted == \A c \in Callers : callers[c].step = "returned" /\ callers[c].out = Ok

\* C18: when the reads and writes of two insert calls interleave and both
\* calls return successfully, the file is what the later writer wrote: the
\* collection that caller had read followed by its own document only
\* (last writer wins); the state where the other caller's document is
\* lost, with no error for either, is reachable.
C18_LastWriterWins ==
  BothInserted
    => \E c \in Callers :
         /\ Len(file) = Len(callers[c].collection) + 1
         /\ SubSeq(file, 1, Len(file) - 1) = callers[c].collection
         /\ UserPart(file[Len(file)]) = callers[c].doc

C18_Witness ==
  /\ BothInserted
  /\ callers[1].collection = callers[2].collection
  /\ callers[1].doc # callers[2].doc
  /\ Len(file) = Len(callers[1].collection) + 1
  /\ \E c \in Callers : \A i \in 1..Len(file) : UserPart(file[i]) # callers[c].doc

\* the target overlaid with the patch and the time of the update, as it is
\* persisted
Replacement ==
  [k \in DOMAIN prev[Target] \cup DOMAIN last.update \cup {"updatedAt"} |->
     IF k = "updatedAt" THEN IsoStr(now)
     ELSE IF k \in DOMAIN last.update THEN JsonValue(last.update[k])
     ELSE prev[Target][k]]

SharedInCall ==
  {t \in (1..Len(last.docs)) \X (1..Len(last.docs)) \X UniqueKeys :
     /\ t[1] < t[2]
     /\ Get(last.docs[t[1]], t[3]) # Undefined
     /\ Get(last.docs[t[1]], t[3]) = Get(last.docs[t[2]], t[3])}

\* C20: insertMany with documents that pass validation, hold no value a
\* persisted document holds in a unique field, and of which two share a
\* value in a unique field, succeeds: all are persisted, and the file then
\* has two documents with that value in that field.
C20_BatchDuplicatesAccepted ==
  (/\ pc = "returned" /\ last.op = "insertMany"
   /\ \A i \in 1..Len(last.docs) : Conforms(last.docs[i])
   /\ DuplicatePairs = {}
   /\ SharedInCall # {})
    => /\ last.out.status = "ok"
       /\ Len(file) = Len(prev) + Len(last.docs)
       /\ \A t \in SharedInCall :
            /\ Get(file[Len(prev) + t[1]], t[3]) = Get(last.docs[t[1]], t[3])
            /\ Get(file[Len(prev) + t[2]], t[3]) = Get(last.docs[t[1]], t[3])

C20_Witness ==
  /\ pc = "returned"
  /\ last.op = "insertMany"
  /\ last.docs = <<UserDoc(B, Undefined), UserDoc(B, Undefined)>>
  /\ Len(prev) = 1
  /\ last.out.status = "ok"
  /\ Len(file) = 3
  /\ Get(file[2], "username") = B
  /\ Get(file[3], "username") = B

\* the document's field f is an object whose properties equal the nested
\* query's values
NestedEquals(doc, f, nested) ==
  /\ Get(doc, f).t = "object"
  /\ \A j \in 1..Len(nested) : PropGet(Get(doc, f).v, nested[j].key) = nested[j].value

\* C22: find({f: {}}) does not fail and returns every persisted document,
\* whatever the documents hold in f, those without f included.
C22_EmptyObjectMatchesAll ==
  (pc = "returned" /\ last.op = "find" /\ last.query \in EmptyObjectQueries) =>
    /\ last.out.status = "ok"
    /\ Len(last.result) = Len(prev)
    /\ \A i \in 1..Len(prev) : \E j \in 1..Len(last.result) : last.result[j] = prev[i]

\* find({profile: {}}) over a document without profile and a document whose
\* profile is null returned both
C22_Witness ==
  /\ pc = "returned" /\ last.op = "find"
  /\ last.query = Obj(<<Pair("profile", Obj(<< >>))>>)
  /\ Len(prev) = 2
  /\ Get(prev[1], "profile") = Undefined
  /\ Get(prev[2], "profile") = Null
  /\ Len(last.result) = 2

\* C28: find, deleteOne and updateOne under a query {f: {g: v}} never fail
\* on account of the query; a document matches exactly when its f is an
\* object whose g equals v, and a document without f, or whose f is not an
\* object, does not match.
C28_NestedQueryNeverFails ==
  (pc = "returned" /\ last.op \in {"find", "deleteOne", "updateOne"}
     /\ last.query \in NestedQueries) =>
    LET f == last.query.v[1].key
        nested == last.query.v[1].value.v
        hits == {i \in 1..Len(prev) : NestedEquals(prev[i], f, nested)}
    IN /\ last.out.status # "TypeError"
       /\ last.op = "find" =>
            /\ Len(last.result) = Cardinality(hits)
            /\ \A i \in hits : \E j \in 1..Len(last.result) : last.result[j] = prev[i]
       /\ (last.op # "find" /\ hits = {}) => last.out.status = "NotFoundError"

\* C23: two generateId results of one instance fewer than 0xffffff calls
\* apart are different strings of 24 characters, whatever the random parts.
C23_IdsPairwiseDistinct ==
  (earlier.apart >= 1 /\ earlier.apart < CounterMod) =>
    /\ generated # earlier.text
    /\ Len(generated) = 24
    /\ Len(earlier.text) = 24

\* C27: the constructor leaves the content of an existing file as it is, and
\* creates the file, holding the serialized empty sequence, only when the
\* path has none.
C27_ConstructorKeepsExistingFile ==
  done.op = "new" =>
    IF done.before.kind = "missing"
    THEN /\ disk[CollectionPath].kind = (IF secretKey = Undefined THEN "json" ELSE "cipher")
         /\ disk[CollectionPath].key = secretKey
         /\ disk[CollectionPath].plain = << >>
    ELSE disk[CollectionPath] = done.before

\* a second instance was constructed on the file after a document had been
\* inserted through the first, and the document is still there
C27_Witness ==
  /\ done.op = "new"
  /\ done.via = 2
  /\ done.before.kind # "missing"
  /\ readThrough(secretKey, disk[CollectionPath]).status = "ok"
  /\ \E j \in 1..Len(readThrough(secretKey, disk[CollectionPath]).docs) :
       Get(readThrough(secretKey, disk[CollectionPath]).docs[j], "_id")
         = IdStr(0, 10, NextCounter(InitialCounter(1)))

\* the content is malformed, or was written under credentials the reading
\* adapter does not hold: other ones, none, or some where it holds none
Undeserializable(key, content) ==
  \/ content.kind = "malformed"
  \/ content.kind = "cipher" /\ content.key # key
  \/ content.kind = "json" /\ key # Undefined

\* C24: on a file the adapter cannot deserialize, every method fails with an
\* error, and neither the constructor nor a method changes the content of
\* the file.
C24_UnreadableFileFailsAndStays ==
  (done.op # "none" /\ Undeserializable(secretKey, done.before)) =>
    /\ disk[CollectionPath] = done.before
    /\ done.op # "new" => done.out.status \notin {"ok"}
    /\ done.result = << >>

\* an insertOne of a valid document, through an adapter holding one key, on
\* a file encrypted under another key, failed
C24_Witness ==
  /\ done.op = "insertOne"
  /\ secretKey = KeyOne
  /\ done.before = stored(KeyTwo, OneDocFile, 0)
  /\ done.out.status = "SyntaxError"
  /\ disk[CollectionPath] = done.before

\* a generated _id without the counter of the instance that generated it
Anon(doc) ==
  [k \in DOMAIN doc |->
     IF doc[k].t = "idstring" THEN IdStr(doc[k].v[1], doc[k].v[2], 0) ELSE doc[k]]

AnonDocs(docs) == [j \in 1..Len(docs) |-> Anon(docs[j])]

AnonOut(out) ==
  [out EXCEPT !.value = IF @.t = "idstring" THEN IdStr(@.v[1], @.v[2], 0) ELSE @]

\* the documents a file content holds, whatever the iv it was encrypted with
Holding(content) ==
  [kind |-> content.kind,
   docs |-> AnonDocs(content.plain),
   key |-> content.key]

\* C21: a call through either of two instances constructed on the same path
\* has the outcome the same call has when every call of the sequence is made
\* through one instance: the same error or success, the same returned
\* documents and the same file content, the instance counter inside the
\* generated ids apart.
C21_InstancesKeepNoDocuments ==
  done.op # "none" =>
    /\ AnonOut(done.out) = AnonOut(done.mirrorOut)
    /\ AnonDocs(done.result) = AnonDocs(done.mirrorResult)
    /\ Holding(disk[CollectionPath]) = Holding(mirror.content)

\* find through the second instance returned a document inserted through
\* the first
C21_Witness ==
  /\ done.op = "find"
  /\ done.via = 2
  /\ \E j \in 1..Len(done.result) :
       Get(done.result[j], "_id") = IdStr(0, 10, NextCounter(InitialCounter(1)))

\* insertOne through the second instance was refused for a value a document
\* inserted through the first holds in a unique field
C21_WitnessUnique ==
  /\ done.op = "insertOne"
  /\ done.via = 2
  /\ done.out.status = "DuplicateKeyError"
  /\ readThrough(secretKey, done.before).status = "ok"
  /\ \E j \in 1..Len(readThrough(secretKey, done.before).docs) :
       /\ Get(readThrough(secretKey, done.before).docs[j], "_id")
            = IdStr(0, 10, NextCounter(InitialCounter(1)))

\* no two documents of the file hold the same defined value in the same
\* unique field
UniqueValues(f) ==
  \A i \in 1..Len(f) : \A j \in 1..Len(f) : \A k \in UniqueKeys :
    (i # j /\ Get(f[i], k) # Undefined) => Get(f[i], k) # Get(f[j], k)

\* C25: the uniqueness invariant is kept by every insertOne, updateOne,
\* updateById, deleteOne and deleteById call: made on a file in which no two
\* documents share a defined value in a unique field, as every file built
\* from the empty collection by such calls should be, the call leaves such
\* a file.
C25_UniquenessInvariant ==
  (pc = "returned" /\ last.op \in {"insertOne", "updateOne", "updateById",
                                    "deleteOne", "deleteById"}
     /\ UniqueValues(prev)) => UniqueValues(file)

\* the patch leaves the date field alone and the target overlaid with it is
\* valid in every field it patches
PatchesOtherFields ==
  /\ "when" \notin DOMAIN last.update
  /\ validate(EventSchema, Spread(EventDoc(A, DateV(0)), last.update)) = Success

\* C26: every document of the file, as read back through the adapter, passes
\* validate for the schema of the collection, one with a required date
\* field; an update of an inserted document whose patch changes other
\* fields to valid values does not fail validation.
C26_PersistedDocumentsValidate ==
  /\ \A i \in 1..Len(readCollectionData(file)) :
       validate(EventSchema, readCollectionData(file)[i]) = Success
  /\ (pc = "returned" /\ IsUpdate /\ Target # 0 /\ PatchesOtherFields) =>
       last.out.status # "ValidationError"

====
